---- MODULE Spec2Model ----
(***************************************************************************)
(* Model of native/ex_vl_convert/src/lib.rs: the eleven NIF entry points   *)
(* of Elixir.VegaLite.Native that convert a Vega / Vega-Lite specification *)
(* through vl_convert_rs::VlConverter and encode the outcome as an         *)
(* {ok | error, payload} tuple.                                            *)
(*                                                                         *)
(* Text that the code inspects (the specification handed to                *)
(* serde_json::from_str, the text produced by serde_json::Value::to_string)*)
(* is a sequence of code points.  Text that the code only passes on        *)
(* (messages, SVG / HTML markup, renderer names) is a TLA+ string.         *)
(* Byte vectors are sequences of numbers in 0..255.                        *)
(***************************************************************************)
EXTENDS Integers, Sequences, FiniteSets, Bags, TLC

(***************************************************************************)
(* Characters.  A text the code inspects is the sequence of the Unicode    *)
(* code points of a Rust String.  Printable gives the ASCII characters     *)
(* U+0020..U+007E in order, so that texts can be written character by      *)
(* character; the grave accent U+0060 is written by its name.              *)
(***************************************************************************)
Printable ==
   <<
      " ", "!", "\"", "#", "$", "%", "&", "'", "(", ")", "*", "+",
      ",", "-", ".", "/", "0", "1", "2", "3", "4", "5", "6", "7",
      "8", "9", ":", ";", "<", "=", ">", "?", "@", "A", "B", "C",
      "D", "E", "F", "G", "H", "I", "J", "K", "L", "M", "N", "O",
      "P", "Q", "R", "S", "T", "U", "V", "W", "X", "Y", "Z", "[",
      "\\", "]", "^", "_", "grave", "a", "b", "c", "d", "e", "f", "g",
      "h", "i", "j", "k", "l", "m", "n", "o", "p", "q", "r", "s",
      "t", "u", "v", "w", "x", "y", "z", "{", "|", "}", "~"
   >>

\* the code point of a character written as a one-character string
Code(ch) ==
    CASE ch = "\t" -> 9
      [] ch = "\n" -> 10
      [] ch = "\f" -> 12
      [] ch = "\r" -> 13
      [] OTHER -> 31 + (CHOOSE k \in 1..Len(Printable) : Printable[k] = ch)

Codes(chars) == [k \in 1..Len(chars) |-> Code(chars[k])]

(***************************************************************************)
(* serde_json::Value.  Every value is a record [t, v] whose v is a         *)
(* sequence: empty for null, <<b>> for a boolean, the code points of a     *)
(* string, the elements of an array, the <<key, value>> members of an      *)
(* object in insertion order, and for a number <<kind, negative, digits,   *)
(* exponent>>:                                                             *)
(*   kind "u64": the non-negative integer written by the decimal digits;   *)
(*   kind "i64": the negative integer whose absolute value the decimal     *)
(*               digits write;                                             *)
(*   kind "f64": the finite f64 digits * 2^exponent, negative or not, its  *)
(*               digits those of the 53-bit significand in base 2^12, the  *)
(*               least significant first (see f64 below).                  *)
(***************************************************************************)
JNull == [t |-> "null", v |-> <<>>]

JBool(b) == [t |-> "bool", v |-> <<b>>]

JNum(kind, negative, digits, exponent) ==
    [t |-> "num", v |-> <<kind, negative, digits, exponent>>]

JStr(chars) == [t |-> "str", v |-> chars]

JArr(elems) == [t |-> "arr", v |-> elems]

JObj(members) == [t |-> "obj", v |-> members]

(***************************************************************************)
(* serde_json::from_str::<Value>.                                          *)
(***************************************************************************)
\* the nesting of arrays and objects the deserializer allows is one less
RecursionLimit == 128

\* space, line feed, tab, carriage return
Whitespace == {32, 10, 9, 13}

Digits == 48..57

ParseErr == [ok |-> FALSE, val |-> JNull, pos |-> 0]

ParseOk(val, pos) == [ok |-> TRUE, val |-> val, pos |-> pos]

\* the first position from i on that is past the text or holds no character of set
Scan(s, i, set) ==
    CHOOSE j \in i..(Len(s) + 1) :
        /\ \A k \in i..(j - 1) : s[k] \in set
        /\ j > Len(s) \/ s[j] \notin set

SkipWs(s, i) == Scan(s, i, Whitespace)

ScanDigits(s, i) == Scan(s, i, Digits)

IsLiteral(s, i, word) ==
    /\ i + Len(word) - 1 <= Len(s)
    /\ SubSeq(s, i, i + Len(word) - 1) = word

\* the value of a hexadecimal digit, -1 for any other character
HexVal(c) ==
    IF c \in 48..57 THEN c - 48
    ELSE IF c \in 97..102 THEN c - 87
    ELSE IF c \in 65..70 THEN c - 55
    ELSE -1

\* the number written by the four hexadecimal digits s[i..i+3], -1 if they are not there
Hex4(s, i) ==
    IF i + 3 > Len(s) THEN -1
    ELSE IF \E k \in 0..3 : HexVal(s[i + k]) < 0 THEN -1
    ELSE HexVal(s[i]) * 4096 + HexVal(s[i + 1]) * 256
         + HexVal(s[i + 2]) * 16 + HexVal(s[i + 3])

\* the characters of a string from s[i] to its closing quote, escapes decoded;
\* acc holds the characters read so far
RECURSIVE ParseString(_, _, _)
ParseString(s, i, acc) ==
    IF i > Len(s) THEN ParseErr
    ELSE IF s[i] = 34 THEN ParseOk(acc, i + 1)
    ELSE IF s[i] < 32 THEN ParseErr
    ELSE IF s[i] # 92 THEN ParseString(s, i + 1, Append(acc, s[i]))
    ELSE IF i + 1 > Len(s) THEN ParseErr
    ELSE LET e == s[i + 1] IN
         CASE e = 34  -> ParseString(s, i + 2, Append(acc, 34))
           [] e = 92  -> ParseString(s, i + 2, Append(acc, 92))
           [] e = 47  -> ParseString(s, i + 2, Append(acc, 47))
           [] e = 98  -> ParseString(s, i + 2, Append(acc, 8))
           [] e = 102 -> ParseString(s, i + 2, Append(acc, 12))
           [] e = 110 -> ParseString(s, i + 2, Append(acc, 10))
           [] e = 114 -> ParseString(s, i + 2, Append(acc, 13))
           [] e = 116 -> ParseString(s, i + 2, Append(acc, 9))
           [] e = 117 ->
                LET n1 == Hex4(s, i + 2) IN
                IF n1 < 0 \/ n1 \in 56320..57343 THEN ParseErr
                ELSE IF n1 \notin 55296..56319
                     THEN ParseString(s, i + 6, Append(acc, n1))
                ELSE IF i + 7 > Len(s) \/ s[i + 6] # 92 \/ s[i + 7] # 117
                     THEN ParseErr
                ELSE LET n2 == Hex4(s, i + 8) IN
                     IF n2 \notin 56320..57343 THEN ParseErr
                     ELSE ParseString(s, i + 12,
                            Append(acc, 65536 + (n1 - 55296) * 1024 + (n2 - 56320)))
           [] OTHER -> ParseErr

StripLeadingZeros(d) == SubSeq(d, Scan(d, 1, {48}), Len(d))

\* a <= b for digit sequences without leading zeros read as integers
IntegerLeq(a, b) ==
    \/ Len(a) < Len(b)
    \/ /\ Len(a) = Len(b)
       /\ ~\E k \in 1..Len(a) : b[k] < a[k] /\ \A m \in 1..(k - 1) : a[m] = b[m]

\* u64::MAX, the absolute value of i64::MIN, i32::MAX
U64Max ==
    Codes(<<"1", "8", "4", "4", "6", "7", "4", "4", "0", "7", "3", "7", "0", "9", "5", "5", "1", "6", "1", "5">>)

I64MinAbs ==
    Codes(<<"9", "2", "2", "3", "3", "7", "2", "0", "3", "6", "8", "5", "4", "7", "7", "5", "8", "0", "8">>)

I32Max == 2147483647

I32MaxDigits == Codes(<<"2", "1", "4", "7", "4", "8", "3", "6", "4", "7">>)

\* the sum of the numbers that f gives to the members of s
Sum(f, s) == BagCardinality([i \in {j \in s : f[j] # 0} |-> f[i]])

\* the number written by digits, at most i32::MAX
DigitsToNat(d) ==
    Sum([i \in 1..Len(d) |-> (d[i] - 48) * 10^(Len(d) - i)], 1..Len(d))

(***************************************************************************)
(* Natural numbers of any size, for the arithmetic of f64: a number is the *)
(* sequence of its digits in base 2^12, the least significant first, the   *)
(* most significant not zero; zero is the empty sequence.                  *)
(***************************************************************************)
Base == 2^12

Limb(a, k) == IF k >= 1 /\ k <= Len(a) THEN a[k] ELSE 0

\* a without its most significant zeros
Trim(a) ==
    SubSeq(a, 1, CHOOSE j \in 0..Len(a) :
                    /\ j = 0 \/ a[j] # 0
                    /\ \A k \in (j + 1)..Len(a) : a[k] = 0)

\* Columns c, each below 2^31, after every column has kept its digit and handed
\* what is above it to the next column, once, twice and three times: a column
\* then holds at most Base
Pass1(c, k) == (Limb(c, k) % Base) + (Limb(c, k - 1) \div Base)

Pass2(c, k) == (Pass1(c, k) % Base) + (Pass1(c, k - 1) \div Base)

Pass3(c, k) == (Pass2(c, k) % Base) + (Pass2(c, k - 1) \div Base)

Settled(c) == SubSeq([k \in 1..(Len(c) + 3) |-> Pass3(c, k)], 1, Len(c) + 3)

\* a carry enters column k of settled columns
CarryIn(d, k) ==
    \E j \in 1..(k - 1) : d[j] = Base /\ \A i \in (j + 1)..(k - 1) : d[i] = Base - 1

Resolved(d) ==
    SubSeq([k \in 1..Len(d) |-> (d[k] + (IF CarryIn(d, k) THEN 1 ELSE 0)) % Base],
           1, Len(d))

\* the number whose columns, each below 2^31, are c
Normal(c) == IF c = <<>> THEN <<>> ELSE Trim(Resolved(Settled(c)))

Less(a, b) ==
    \/ Len(a) < Len(b)
    \/ /\ Len(a) = Len(b)
       /\ \E k \in 1..Len(a) : a[k] < b[k] /\ \A j \in (k + 1)..Len(a) : a[j] = b[j]

Longer(a, b) == IF Len(a) > Len(b) THEN Len(a) ELSE Len(b)

Add(a, b) ==
    Normal(SubSeq([k \in 1..Longer(a, b) |-> Limb(a, k) + Limb(b, k)], 1, Longer(a, b)))

\* a borrow leaves column k of a - b
BorrowIn(a, b, k) ==
    \E j \in 1..(k - 1) :
        /\ a[j] < Limb(b, j)
        /\ \A i \in (j + 1)..(k - 1) : a[i] = Limb(b, i)

\* a - b for b <= a
Sub(a, b) ==
    IF b = <<>> THEN a
    ELSE Trim(SubSeq([k \in 1..Len(a) |->
                        (a[k] + Base - Limb(b, k) - (IF BorrowIn(a, b, k) THEN 1 ELSE 0)) % Base],
                     1, Len(a)))

\* a * x for x below 2^19
MulSmall(a, x) ==
    IF a = <<>> THEN <<>>
    ELSE Normal(SubSeq([k \in 1..Len(a) |-> a[k] * x], 1, Len(a)))

\* column k of a * b: the sum of a[i] * b[k + 1 - i]
Column(a, b, k) ==
    Sum([i \in 1..Len(a) |-> a[i] * Limb(b, k + 1 - i)], 1..Len(a))

\* a * b for numbers of at most 127 digits
Mul(a, b) ==
    IF a = <<>> \/ b = <<>> THEN <<>>
    ELSE Normal(SubSeq([k \in 1..(Len(a) + Len(b) - 1) |-> Column(a, b, k)],
                       1, Len(a) + Len(b) - 1))

\* a * 2^n
ShiftLeft(a, n) ==
    IF a = <<>> THEN <<>>
    ELSE [k \in 1..(n \div 12) |-> 0] \o MulSmall(a, 2^(n % 12))

\* a with its r lowest bits dropped, r below 12
ShiftBits(a, r) ==
    IF a = <<>> THEN <<>>
    ELSE Trim(SubSeq([k \in 1..Len(a) |->
                        (a[k] \div 2^r) + (Limb(a, k + 1) % 2^r) * 2^(12 - r)],
                     1, Len(a)))

\* a with its n lowest bits dropped
ShiftRight(a, n) == ShiftBits(SubSeq(a, (n \div 12) + 1, Len(a)), n % 12)

\* bit i of a, bit 0 the lowest
Bit(a, i) == (Limb(a, (i \div 12) + 1) \div 2^(i % 12)) % 2

\* the n lowest bits of a are zero
LowBitsZero(a, n) ==
    /\ \A k \in 1..(n \div 12) : Limb(a, k) = 0
    /\ Limb(a, (n \div 12) + 1) % 2^(n % 12) = 0

\* the number of bits of a
BitLen(a) ==
    IF a = <<>> THEN 0
    ELSE 12 * (Len(a) - 1)
         + (CHOOSE b \in 1..12 : 2^(b - 1) <= a[Len(a)] /\ a[Len(a)] < 2^b)

\* a \div 2^36 for a below 2^67
Top(a) == Limb(a, 4) + Limb(a, 5) * Base + Limb(a, 6) * Base * Base

\* the quotient rr \div d for d of 53 bits and rr below d * 2^12
QuotientDigit(rr, d, estimate) ==
    CHOOSE x \in 0..(Base - 1) :
        /\ x >= estimate - 2 /\ x <= estimate + 2
        /\ ~Less(rr, MulSmall(d, x))
        /\ Less(rr, MulSmall(d, x + 1))

\* One step of the long division of n by d, d of 53 bits.  The digits n[i+1..]
\* have been divided: q is their quotient, r their remainder
DivState(i, r, q) == [i |-> i, r |-> r, q |-> q]

DivSub(d, st, rr, x) == DivState(st.i - 1, Sub(rr, MulSmall(d, x)), <<x>> \o st.q)

DivNext(d, st, rr) == DivSub(d, st, rr, QuotientDigit(rr, d, Top(rr) \div Top(d)))

DivDigit(n, d, st) == DivNext(d, st, Trim(<<n[st.i]>> \o st.r))

RECURSIVE DivStep(_, _, _)
DivStep(n, d, st) == IF st.i = 0 THEN st ELSE DivStep(n, d, DivDigit(n, d, st))

\* quotient q and remainder r of n divided by d, d of 53 bits and n of more than
\* four digits: the four highest digits of n are less than d
DivMod(n, d) == DivStep(n, d, DivState(Len(n) - 4, SubSeq(n, Len(n) - 3, Len(n)), <<>>))

\* p, p^2, p^4, ...: n of them
RECURSIVE Squares(_, _)
Squares(p, n) == IF n = 0 THEN <<>> ELSE <<p>> \o Squares(Mul(p, p), n - 1)

\* 5^8, 5^16, 5^32, 5^64, 5^128, 5^256
Fives == Squares(Normal(<<5^8>>), 6)

\* p times the Fives from the j-th on that the bits of n choose
PowState(n, j, p) == [n |-> n, j |-> j, p |-> p]

RECURSIVE Powers(_)
Powers(st) ==
    IF st.n = 0 THEN st.p
    ELSE Powers(PowState(st.n \div 2, st.j + 1,
                         IF st.n % 2 = 1 THEN Mul(st.p, Fives[st.j]) ELSE st.p))

\* 5^k for k below 512
Pow5(k) == Powers(PowState(k \div 8, 1, Normal(<<5^(k % 8)>>)))

\* 10^k for k below 512
Pow10(k) == ShiftLeft(Pow5(k), k)

\* 10^0, 10^4, 10^8, 10^12, 10^16
Tens == SubSeq([j \in 1..5 |-> Pow10(4 * (j - 1))], 1, 5)

\* the decimal digit of d that is worth 10^p, 0 if d does not reach it
Dec(d, p) == IF p < Len(d) THEN d[Len(d) - p] - 48 ELSE 0

\* the four digits of d that are worth 10^(4j) .. 10^(4j + 3), as a number
Dec4(d, j) ==
    Dec(d, 4 * j) + 10 * Dec(d, 4 * j + 1) + 100 * Dec(d, 4 * j + 2)
        + 1000 * Dec(d, 4 * j + 3)

\* the number written by at most twenty decimal digits
BigOfDigits(d) ==
    Normal(SubSeq([k \in 1..6 |-> Sum([j \in 1..5 |-> Dec4(d, j - 1) * Limb(Tens[j], k)], 1..5)],
                  1, 6))

(***************************************************************************)
(* f64 (IEEE 754 binary64).  A finite f64 of either sign is m * 2^e with   *)
(* 2^52 <= m < 2^53 and -1074 <= e <= 971, or m < 2^52 and e = -1074       *)
(* (subnormal), or m = 0 and e = 0.                                        *)
(***************************************************************************)
Finite(m, e) == [inf |-> FALSE, m |-> m, e |-> e]

Infinite == [inf |-> TRUE, m |-> <<>>, e |-> 0]

\* m * 2^q, m of at most 53 bits, if it is not too large
InRange(m, q) ==
    IF m = <<>> THEN Finite(<<>>, 0)
    ELSE IF q > 971 THEN Infinite
    ELSE Finite(m, q)

\* rounding up may have taken m to 2^53
Carried(m, q) ==
    IF BitLen(m) > 53 THEN InRange(ShiftRight(m, 1), q + 1) ELSE InRange(m, q)

\* n * 2^e (and a little more if sticky) rounded to a multiple of 2^q, ties to even
RoundAt(n, e, sticky, q) ==
    IF q <= e THEN InRange(ShiftLeft(n, e - q), q)
    ELSE IF /\ Bit(n, q - e - 1) = 1
            /\ (sticky \/ ~LowBitsZero(n, q - e - 1) \/ Bit(n, q - e) = 1)
         THEN Carried(Add(ShiftRight(n, q - e), <<1>>), q)
    ELSE Carried(ShiftRight(n, q - e), q)

\* the f64 nearest to n * 2^e; sticky: the exact value is a little more than that
Nearest(n, e, sticky) ==
    IF n = <<>> THEN Finite(<<>>, 0)
    ELSE RoundAt(n, e, sticky,
                 IF e + BitLen(n) - 53 > -1074 THEN e + BitLen(n) - 53 ELSE -1074)

\* f * p
F64Mul(f, p) == Nearest(Mul(f.m, p.m), f.e + p.e, FALSE)

Quotient(qr, e) == Nearest(Trim(qr.q), e, qr.r # <<>>)

\* f / p for a normal p
F64Div(f, p) ==
    IF f.m = <<>> THEN f
    ELSE Quotient(DivMod(ShiftLeft(f.m, 72), p.m), f.e - p.e - 72)

\* the table of the powers of ten 1e0 .. 1e308 as f64
POW10(k) == Nearest(Pow5(k), k, FALSE)

\* the loop of f64_from_parts: f scaled by ten to the exponent
RECURSIVE Scaled(_, _)
Scaled(f, exponent) ==
    IF exponent >= 0 /\ exponent <= 308 THEN F64Mul(f, POW10(exponent))
    ELSE IF exponent < 0 /\ exponent >= -308 THEN F64Div(f, POW10(0 - exponent))
    ELSE IF f.m = <<>> THEN f
    ELSE IF exponent >= 0 THEN Infinite
    ELSE Scaled(F64Div(f, POW10(308)), exponent + 308)

\* serde_json::Number::from_f64 of the f64 n * 2^e, n below 2^31
from_f64(negative, n, e) ==
    JNum("f64", negative, Nearest(Normal(<<n>>), e, FALSE).m, Nearest(Normal(<<n>>), e, FALSE).e)

F64Value(negative, f, pos) ==
    IF f.inf THEN ParseErr ELSE ParseOk(JNum("f64", negative, f.m, f.e), pos)

\* significand: the digits of a u64 without leading zeros; exponent: an i32.
\* The f64 of the significand times ten to the exponent, "number out of range"
\* if that is infinite
f64_from_parts(negative, significand, exponent, pos) ==
    F64Value(negative, Scaled(Nearest(BigOfDigits(significand), 0, FALSE), exponent), pos)

(***************************************************************************)
(* Numbers.  The parse_* operators read a number up to its last character  *)
(* and yield what the visitor is handed: an integer, or the parts of an    *)
(* f64 that f64_from_parts multiplies out.                                 *)
(***************************************************************************)
NumErr ==
    [ok |-> FALSE, kind |-> "f64", negative |-> FALSE, significand |-> <<>>,
     exponent |-> 0, pos |-> 0]

Integer(kind, negative, digits, pos) ==
    [ok |-> TRUE, kind |-> kind, negative |-> negative, significand |-> digits,
     exponent |-> 0, pos |-> pos]

Float(negative, significand, exponent, pos) ==
    [ok |-> TRUE, kind |-> "f64", negative |-> negative, significand |-> significand,
     exponent |-> exponent, pos |-> pos]

\* how many leading digits of t, which has no leading zero, a u64 takes:
\* the digit at which significand * 10 + digit overflows is not taken
Kept(t) ==
    IF Len(t) <= 19 THEN Len(t)
    ELSE IF IntegerLeq(SubSeq(t, 1, 20), U64Max) THEN 20
    ELSE 19

\* how many of the fraction digits the significand takes
Taken(significand, fraction) ==
    IF significand = <<>>
    THEN (Scan(fraction, 1, {48}) - 1) + Kept(StripLeadingZeros(fraction))
    ELSE Kept(significand \o fraction) - Len(significand)

\* i32::saturating_add and i32::saturating_sub of a natural number
saturating_add(a, n) == IF a > 0 /\ n > I32Max - a THEN I32Max ELSE a + n

saturating_sub(a, n) == IF a < 0 /\ n > (I32Max + a) + 1 THEN (0 - I32Max) - 1 ELSE a - n

parse_exponent_overflow(negative, zero_significand, positive_exp, pos) ==
    IF ~zero_significand /\ positive_exp THEN NumErr
    ELSE Float(negative, <<>>, 0, pos)

\* the exponent written by digits without leading zeros; pos: the position after them
exponent_value(negative, significand, starting_exp, positive_exp, digits, pos) ==
    IF ~IntegerLeq(digits, I32MaxDigits)
    THEN parse_exponent_overflow(negative, significand = <<>>, positive_exp, pos)
    ELSE IF positive_exp
         THEN Float(negative, significand,
                    saturating_add(starting_exp, DigitsToNat(digits)), pos)
    ELSE Float(negative, significand,
               saturating_sub(starting_exp, DigitsToNat(digits)), pos)

\* the exponent digits s[i..j-1], j the first position after them
parse_exponent_digits(s, negative, significand, starting_exp, positive_exp, i, j) ==
    IF j = i THEN NumErr
    ELSE exponent_value(negative, significand, starting_exp, positive_exp,
            StripLeadingZeros(SubSeq(s, i, j - 1)), j)

\* an exponent, s[i] the character after the e
parse_exponent(s, negative, significand, starting_exp, i) ==
    IF i <= Len(s) /\ s[i] \in {43, 45}
    THEN parse_exponent_digits(s, negative, significand, starting_exp, s[i] = 43,
            i + 1, ScanDigits(s, i + 1))
    ELSE parse_exponent_digits(s, negative, significand, starting_exp, TRUE,
            i, ScanDigits(s, i))

\* what follows the fraction digits, s[j] the character after them
after_decimal(s, negative, significand, exponent, j) ==
    IF j <= Len(s) /\ s[j] \in {101, 69}
    THEN parse_exponent(s, negative, significand, exponent, j + 1)
    ELSE Float(negative, significand, exponent, j)

\* the fraction digits s[i..j-1] of which the significand takes the first n;
\* the others are ignored (parse_decimal_overflow)
parse_decimal_digits(s, negative, significand, exponent_before, i, j, n) ==
    after_decimal(s, negative,
        StripLeadingZeros(significand \o SubSeq(s, i, i + n - 1)),
        exponent_before - n, j)

\* a fraction, s[i] the character after the point
parse_decimal(s, negative, significand, exponent_before, i) ==
    IF ScanDigits(s, i) = i THEN NumErr
    ELSE parse_decimal_digits(s, negative, significand, exponent_before, i,
            ScanDigits(s, i), Taken(significand, SubSeq(s, i, ScanDigits(s, i) - 1)))

\* what follows the integer digits of a significand that is a u64, s[i] the
\* character after them
parse_number(s, negative, significand, i) ==
    IF i <= Len(s) /\ s[i] = 46
    THEN parse_decimal(s, negative, significand, 0, i + 1)
    ELSE IF i <= Len(s) /\ s[i] \in {101, 69}
         THEN parse_exponent(s, negative, significand, 0, i + 1)
    ELSE IF ~negative
         THEN Integer("u64", FALSE, IF significand = <<>> THEN <<48>> ELSE significand, i)
    ELSE IF significand # <<>> /\ IntegerLeq(significand, I64MinAbs)
         THEN Integer("i64", TRUE, significand, i)
    ELSE Float(TRUE, significand, 0, i)

\* what follows integer digits that overflowed the u64: the significand is the
\* digits before the overflow, the exponent counts the digits dropped
parse_long_integer(s, negative, significand, exponent, i) ==
    IF i <= Len(s) /\ s[i] = 46
    THEN parse_decimal(s, negative, significand, exponent, i + 1)
    ELSE IF i <= Len(s) /\ s[i] \in {101, 69}
         THEN parse_exponent(s, negative, significand, exponent, i + 1)
    ELSE Float(negative, significand, exponent, i)

\* the integer digits s[i..j-1], which do not start with 0
parse_integer_digits(s, negative, i, j) ==
    IF Kept(SubSeq(s, i, j - 1)) = j - i
    THEN parse_number(s, negative, SubSeq(s, i, j - 1), j)
    ELSE parse_long_integer(s, negative,
            SubSeq(s, i, i + Kept(SubSeq(s, i, j - 1)) - 1),
            (j - i) - Kept(SubSeq(s, i, j - 1)), j)

\* the integer digits from s[i] on: a single 0, or digits that do not start with 0
parse_integer(s, negative, i) ==
    IF i > Len(s) \/ s[i] \notin Digits THEN NumErr
    ELSE IF s[i] # 48 THEN parse_integer_digits(s, negative, i, ScanDigits(s, i))
    ELSE IF i + 1 <= Len(s) /\ s[i + 1] \in Digits THEN NumErr
    ELSE parse_number(s, negative, <<>>, i + 1)

\* the value the visitor makes of a number
visit(n) ==
    IF ~n.ok THEN ParseErr
    ELSE IF n.kind = "f64"
         THEN f64_from_parts(n.negative, n.significand, n.exponent, n.pos)
    ELSE ParseOk(JNum(n.kind, n.negative, n.significand, 0), n.pos)

\* a number, s[i] the character after its sign if it has one
parse_any_number(s, negative, i) == visit(parse_integer(s, negative, i))

\* a later member with the same key replaces the earlier one (serde_json::Map::insert)
MapInsert(members, key, val) ==
    IF \E k \in 1..Len(members) : members[k][1] = key
    THEN [k \in 1..Len(members) |->
            IF members[k][1] = key THEN <<key, val>> ELSE members[k]]
    ELSE Append(members, <<key, val>>)

\* a string value, r the outcome of reading its characters
StringValue(r) == IF r.ok THEN ParseOk(JStr(r.val), r.pos) ELSE ParseErr

\* depth: how many more times the deserializer may enter an array or an object, plus one
RECURSIVE ParseValue(_, _, _)
RECURSIVE ParseArray(_, _, _), ParseElems(_, _, _, _), AfterElem(_, _, _, _)
RECURSIVE ElemSeparator(_, _, _, _)
RECURSIVE ParseObject(_, _, _), ParseMembers(_, _, _, _), MemberKey(_, _, _, _)
RECURSIVE MemberColon(_, _, _, _, _), AfterMember(_, _, _, _, _)
RECURSIVE MemberSeparator(_, _, _, _)
ParseValue(s, i, depth) ==
    IF i > Len(s) THEN ParseErr
    ELSE CASE s[i] = 110 ->
                IF IsLiteral(s, i, <<110, 117, 108, 108>>)
                THEN ParseOk(JNull, i + 4) ELSE ParseErr
           [] s[i] = 116 ->
                IF IsLiteral(s, i, <<116, 114, 117, 101>>)
                THEN ParseOk(JBool(TRUE), i + 4) ELSE ParseErr
           [] s[i] = 102 ->
                IF IsLiteral(s, i, <<102, 97, 108, 115, 101>>)
                THEN ParseOk(JBool(FALSE), i + 5) ELSE ParseErr
           [] s[i] = 34 -> StringValue(ParseString(s, i + 1, <<>>))
           [] s[i] = 45 -> parse_any_number(s, TRUE, i + 1)
           [] s[i] \in Digits -> parse_any_number(s, FALSE, i)
           [] s[i] = 91 ->
                IF depth <= 1 THEN ParseErr
                ELSE ParseArray(s, SkipWs(s, i + 1), depth - 1)
           [] s[i] = 123 ->
                IF depth <= 1 THEN ParseErr
                ELSE ParseObject(s, SkipWs(s, i + 1), depth - 1)
           [] OTHER -> ParseErr

\* an array, s[j] the first character that is not a blank after its bracket
ParseArray(s, j, depth) ==
    IF j <= Len(s) /\ s[j] = 93 THEN ParseOk(JArr(<<>>), j + 1)
    ELSE ParseElems(s, j, <<>>, depth)

\* the elements of an array from s[i] on, acc the elements read so far
ParseElems(s, i, acc, depth) == AfterElem(s, ParseValue(s, i, depth), acc, depth)

\* r: the outcome of reading one element
AfterElem(s, r, acc, depth) ==
    IF ~r.ok THEN ParseErr
    ELSE ElemSeparator(s, SkipWs(s, r.pos), Append(acc, r.val), depth)

\* s[j]: the first character that is not a blank after an element
ElemSeparator(s, j, acc, depth) ==
    IF j > Len(s) THEN ParseErr
    ELSE IF s[j] = 44 THEN ParseElems(s, SkipWs(s, j + 1), acc, depth)
    ELSE IF s[j] = 93 THEN ParseOk(JArr(acc), j + 1)
    ELSE ParseErr

\* an object, s[j] the first character that is not a blank after its brace
ParseObject(s, j, depth) ==
    IF j <= Len(s) /\ s[j] = 125 THEN ParseOk(JObj(<<>>), j + 1)
    ELSE ParseMembers(s, j, <<>>, depth)

\* the members of an object from s[i] on, acc the members read so far
ParseMembers(s, i, acc, depth) ==
    IF i > Len(s) \/ s[i] # 34 THEN ParseErr
    ELSE MemberKey(s, ParseString(s, i + 1, <<>>), acc, depth)

\* key: the outcome of reading the characters of a member's key
MemberKey(s, key, acc, depth) ==
    IF ~key.ok THEN ParseErr
    ELSE MemberColon(s, key.val, SkipWs(s, key.pos), acc, depth)

\* s[c]: the first character that is not a blank after a key
MemberColon(s, key, c, acc, depth) ==
    IF c > Len(s) \/ s[c] # 58 THEN ParseErr
    ELSE AfterMember(s, key, ParseValue(s, SkipWs(s, c + 1), depth), acc, depth)

\* r: the outcome of reading the value of the member key
AfterMember(s, key, r, acc, depth) ==
    IF ~r.ok THEN ParseErr
    ELSE MemberSeparator(s, SkipWs(s, r.pos), MapInsert(acc, key, r.val), depth)

\* s[j]: the first character that is not a blank after a member
MemberSeparator(s, j, members, depth) ==
    IF j > Len(s) THEN ParseErr
    ELSE IF s[j] = 44 THEN ParseMembers(s, SkipWs(s, j + 1), members, depth)
    ELSE IF s[j] = 125 THEN ParseOk(JObj(members), j + 1)
    ELSE ParseErr

\* r: the outcome of reading one value; nothing but blanks may follow it
EndOfText(s, r) == IF r.ok /\ SkipWs(s, r.pos) > Len(s) THEN r ELSE ParseErr

\* the whole text must be one value, blanks around it allowed
from_str(s) == EndOfText(s, ParseValue(s, SkipWs(s, 1), RecursionLimit))

(***************************************************************************)
(* serde_json::Value::to_string: the compact text of a value.              *)
(***************************************************************************)
\* the decimal digits of a natural number
RECURSIVE NatToDigits(_)
NatToDigits(n) ==
    IF n < 10 THEN <<48 + n>> ELSE Append(NatToDigits(n \div 10), 48 + (n % 10))

Zeros(n) == [k \in 1..n |-> 48]

HexDigit(n) == IF n < 10 THEN 48 + n ELSE 87 + n

\* one character of a string as the serializer writes it
EscapeChar(c) ==
    CASE c = 34 -> <<92, 34>>
      [] c = 92 -> <<92, 92>>
      [] c = 8  -> <<92, 98>>
      [] c = 9  -> <<92, 116>>
      [] c = 10 -> <<92, 110>>
      [] c = 12 -> <<92, 102>>
      [] c = 13 -> <<92, 114>>
      [] c < 32 -> <<92, 117, 48, 48, HexDigit(c \div 16), HexDigit(c % 16)>>
      [] OTHER  -> <<c>>

RECURSIVE Escaped(_)
Escaped(chars) ==
    IF chars = <<>> THEN <<>> ELSE EscapeChar(chars[1]) \o Escaped(Tail(chars))

Quoted(chars) == <<34>> \o Escaped(chars) \o <<34>>

\* The state of writing the f64 v = m * 2^e in decimal: v is r / s times a power
\* of ten, and the text may stand for anything between v - mm / s and v + mp / s
\* times that power, half the way to the f64 below and above v
Gaps(r, s, mp, mm) == [r |-> r, s |-> s, mp |-> mp, mm |-> mm]

\* the f64 below v is closer to it than the one above: v is a power of two
narrow(m, e) == BitLen(m) = 53 /\ LowBitsZero(m, 52) /\ e > -1074

Start(m, e) ==
    IF e >= 0
    THEN IF narrow(m, e)
         THEN Gaps(ShiftLeft(m, e + 2), <<4>>, ShiftLeft(<<1>>, e + 1), ShiftLeft(<<1>>, e))
         ELSE Gaps(ShiftLeft(m, e + 1), <<2>>, ShiftLeft(<<1>>, e), ShiftLeft(<<1>>, e))
    ELSE IF narrow(m, e)
         THEN Gaps(ShiftLeft(m, 2), ShiftLeft(<<1>>, 2 - e), <<2>>, <<1>>)
         ELSE Gaps(ShiftLeft(m, 1), ShiftLeft(<<1>>, 1 - e), <<1>>, <<1>>)

\* k with 10^k not above m * 2^e, from the number of bits of m
Estimate(m, e) ==
    IF BitLen(m) + e - 1 >= 0 THEN ((BitLen(m) + e - 1) * 30102) \div 100000
    ELSE 0 - (((1 - (BitLen(m) + e)) * 30103 + 99999) \div 100000)

\* r / s divided by 10^k
ScaleBy(g, k) ==
    IF k >= 0 THEN Gaps(g.r, Mul(g.s, Pow10(k)), g.mp, g.mm)
    ELSE Gaps(Mul(g.r, Pow10(0 - k)), g.s, Mul(g.mp, Pow10(0 - k)), Mul(g.mm, Pow10(0 - k)))

\* the upper end of the range is 1 or more; the ends belong to the range of an even m
Reaches(g, even) ==
    IF even THEN ~Less(Add(g.r, g.mp), g.s) ELSE Less(g.s, Add(g.r, g.mp))

\* the lower end of the range is 0 or less
Falls(g, even) ==
    IF even THEN ~Less(g.mm, g.r) ELSE Less(g.r, g.mm)

\* the point: the least k that has the whole range below 10^k
RECURSIVE Fixup(_, _, _)
Fixup(g, k, even) ==
    IF Reaches(g, even)
    THEN Fixup(Gaps(g.r, MulSmall(g.s, 10), g.mp, g.mm), k + 1, even)
    ELSE [g |-> g, point |-> k]

\* the next digit of r / s: how many times s goes into r10
NextDigit(r10, s) == Cardinality({j \in 1..9 : ~Less(r10, MulSmall(s, j))})

\* the last digit: d or d + 1, whichever is in the range and closer, the even
\* one if they are as close
LastDigit(g, acc, d, low, high) ==
    IF low /\ ~high THEN Append(acc, 48 + d)
    ELSE IF high /\ ~low THEN Append(acc, 49 + d)
    ELSE IF Less(MulSmall(g.r, 2), g.s) THEN Append(acc, 48 + d)
    ELSE IF Less(g.s, MulSmall(g.r, 2)) THEN Append(acc, 49 + d)
    ELSE Append(acc, 48 + d + (d % 2))

\* One digit more.  A state holds the digits written and what is left of v
Writing(g, acc, done) == [g |-> g, acc |-> acc, done |-> done]

Ended(g, acc, d, low, high) ==
    IF ~low /\ ~high THEN Writing(g, Append(acc, 48 + d), FALSE)
    ELSE Writing(g, LastDigit(g, acc, d, low, high), TRUE)

Decide(g, even, acc, d) == Ended(g, acc, d, Falls(g, even), Reaches(g, even))

NextGaps(g, even, acc, d) ==
    Decide(Gaps(Sub(MulSmall(g.r, 10), MulSmall(g.s, d)), g.s,
                MulSmall(g.mp, 10), MulSmall(g.mm, 10)), even, acc, d)

WriteDigit(st, even) ==
    NextGaps(st.g, even, st.acc, NextDigit(MulSmall(st.g.r, 10), st.g.s))

\* the digits of v
RECURSIVE Generate(_, _)
Generate(st, even) == IF st.done THEN st.acc ELSE Generate(WriteDigit(st, even), even)

Digits17(fix, even) ==
    [digits |-> Generate(Writing(fix.g, <<>>, FALSE), even), point |-> fix.point]

\* the digits and the point of the shortest decimal 0.digits * 10^point that
\* reads back as the f64 m * 2^e, m not 0
Shortest(m, e) ==
    Digits17(Fixup(ScaleBy(Start(m, e), Estimate(m, e)), Estimate(m, e), m[1] % 2 = 0),
             m[1] % 2 = 0)

\* 0.digits * 10^point as the serializer writes it
FormatF64(negative, digits, point) ==
    LET n == Len(digits)
        exponent == IF point - 1 < 0 THEN <<45>> \o NatToDigits(1 - point)
                    ELSE <<43>> \o NatToDigits(point - 1)
        body ==
            IF n = 0 THEN <<48, 46, 48>>
            ELSE IF n <= point /\ point <= 16
                 THEN digits \o Zeros(point - n) \o <<46, 48>>
            ELSE IF 0 < point /\ point <= 16
                 THEN SubSeq(digits, 1, point) \o <<46>> \o SubSeq(digits, point + 1, n)
            ELSE IF -5 < point /\ point <= 0
                 THEN <<48, 46>> \o Zeros(0 - point) \o digits
            ELSE IF n = 1 THEN digits \o <<101>> \o exponent
            ELSE <<digits[1], 46>> \o Tail(digits) \o <<101>> \o exponent
    IN  (IF negative THEN <<45>> ELSE <<>>) \o body

Written(negative, d) == FormatF64(negative, d.digits, d.point)

\* the f64 m * 2^e of either sign as the serializer writes it
format_f64(negative, m, e) ==
    IF m = <<>> THEN FormatF64(negative, <<>>, 0)
    ELSE Written(negative, Shortest(m, e))

RECURSIVE to_string(_), JoinElems(_, _), JoinMembers(_, _)
to_string(v) ==
    CASE v.t = "null" -> <<110, 117, 108, 108>>
      [] v.t = "bool" -> IF v.v[1] THEN <<116, 114, 117, 101>>
                         ELSE <<102, 97, 108, 115, 101>>
      [] v.t = "num"  ->
           IF v.v[1] = "u64" THEN v.v[3]
           ELSE IF v.v[1] = "i64" THEN <<45>> \o v.v[3]
           ELSE format_f64(v.v[2], v.v[3], v.v[4])
      [] v.t = "str"  -> Quoted(v.v)
      [] v.t = "arr"  -> <<91>> \o JoinElems(v.v, 1) \o <<93>>
      [] v.t = "obj"  -> <<123>> \o JoinMembers(v.v, 1) \o <<125>>

JoinElems(elems, k) ==
    IF k > Len(elems) THEN <<>>
    ELSE (IF k > 1 THEN <<44>> ELSE <<>>) \o to_string(elems[k])
         \o JoinElems(elems, k + 1)

JoinMembers(members, k) ==
    IF k > Len(members) THEN <<>>
    ELSE (IF k > 1 THEN <<44>> ELSE <<>>)
         \o Quoted(members[k][1]) \o <<58>> \o to_string(members[k][2])
         \o JoinMembers(members, k + 1)


(***************************************************************************)
(* Bounds and input domains.                                               *)
(***************************************************************************)
\* number of calls the host may have in flight at once
NumCalls == 2

Calls == 1..NumCalls

\* `not json`
TextNotJson ==
    Codes(<<"n", "o", "t", " ", "j", "s", "o", "n">>)

\* `[1`
TextUnclosed ==
    Codes(<<"[", "1">>)

\* `{}x`
TextTrailing ==
    Codes(<<"{", "}", "x">>)

\* `{"mark":"bar"}`
TextMarkBar ==
    Codes(<<"{", "\"", "m", "a", "r", "k", "\"", ":", "\"", "b", "a", "r",
            "\"", "}">>)

\* ` {} `
TextEmptyObject ==
    Codes(<<" ", "{", "}", " ">>)

\* `[1,true,null]`
TextArray ==
    Codes(<<"[", "1", ",", "t", "r", "u", "e", ",", "n", "u", "l", "l", "]">>)

\* `"a<TAB>b"`, a raw control character inside a string
TextControl ==
    Codes(<<"\"", "a", "\t", "b", "\"">>)

\* `"\"`, a string whose closing quote is escaped
TextBackslash ==
    Codes(<<"\"", "\\", "\"">>)

\* `{"title":"a\"b\\c\nd\u0041\ud83d\ude00"}`, every kind of escape
TextEscaped ==
    Codes(<<"{", "\"", "t", "i", "t", "l", "e", "\"", ":", "\"", "a", "\\",
            "\"", "b", "\\", "\\", "c", "\\", "n", "d", "\\", "u", "0", "0",
            "4", "1", "\\", "u", "d", "8", "3", "d", "\\", "u", "d", "e",
            "0", "0", "\"", "}">>)

\* `[-1,1.5,1e2,-0,18446744073709551616]`, numbers of every kind
TextNumbers ==
    Codes(<<"[", "-", "1", ",", "1", ".", "5", ",", "1", "e", "2", ",", "-",
            "0", ",", "1", "8", "4", "4", "6", "7", "4", "4", "0", "7", "3",
            "7", "0", "9", "5", "5", "1", "6", "1", "6", "]">>)

\* `[[[{"a":[[]]}]]]`, arrays and objects nested
TextNested ==
    Codes(<<"[", "[", "[", "{", "\"", "a", "\"", ":", "[", "[", "]", "]", "}", "]", "]", "]">>)

\* `[[[{"a":[[]]}]]`, the last bracket missing
TextNestedOpen ==
    Codes(<<"[", "[", "[", "{", "\"", "a", "\"", ":", "[", "[", "]", "]", "}", "]", "]">>)

\* 1 followed by 400 zeros, an integer beyond any f64
TextHuge == <<49>> \o Zeros(400)

SpecTexts ==
    {<<>>, TextNotJson, TextUnclosed, TextTrailing, TextControl, TextBackslash,
     TextNestedOpen, TextHuge,
     TextMarkBar, TextEmptyObject, TextArray, TextEscaped, TextNumbers, TextNested}

RendererNames == {"svg", "canvas", "hybrid", "webgl", ""}

Bundles == BOOLEAN

\* f32 scale factors 1.0 and 2.0, f32 pixel densities 72.0 and 300.0
Scales == {1, 2}

Ppis == {72, 300}

\* u8 JPEG qualities, 150 and 255 beyond the 0..100 the engine documents
Qualities == {0, 90, 150, 255}

\* `{"marks":[]}` as a serde_json::Value
VegaDocument == JObj(<<<<Codes(<<"m", "a", "r", "k", "s">>), JArr(<<>>)>>>>)

\* `{"k\"":[1,-1,18446744073709551615,true,null],"signal":"datum[\"x\"]\\<LF>"}`
\* as a serde_json::Value: a key and a string that need escaping, integers
VegaSignalDocument ==
    JObj(<< <<Codes(<<"k", "\"">>),
              JArr(<<JNum("u64", FALSE, <<49>>, 0), JNum("i64", TRUE, <<49>>, 0),
                     JNum("u64", FALSE, U64Max, 0), JBool(TRUE), JNull>>)>>,
            <<Codes(<<"s", "i", "g", "n", "a", "l">>),
              JStr(Codes(<<"d", "a", "t", "u", "m", "[", "\"", "x", "\"", "]", "\\", "\n">>))>> >>)

\* `{"domain":[1.5,100.0,-9.313225746154785e-10,1.152921504606847e+18,1e-25]}` as
\* a serde_json::Value: 3 * 2^-1, 25 * 2^2, -(2^-30), 2^60 and the f64 nearest to
\* 10^-25, which is 8711228593176025 * 2^-136
VegaDomainDocument ==
    JObj(<< <<Codes(<<"d", "o", "m", "a", "i", "n">>),
              JArr(<<from_f64(FALSE, 3, -1), from_f64(FALSE, 25, 2),
                     from_f64(TRUE, 1, -30), from_f64(FALSE, 1, 60),
                     JNum("f64", FALSE, <<3545, 3495, 245, 3885, 30>>, -136)>>)>> >>)

\* the domains one sequential call draws its inputs from
FullInputs ==
    [texts |-> SpecTexts, renderers |-> RendererNames, bundles |-> Bundles,
     scales |-> Scales, ppis |-> Ppis, qualities |-> Qualities, rich |-> TRUE,
     documents |-> {VegaDocument, VegaSignalDocument, VegaDomainDocument}]

\* FullInputs with the engine's documents that hold no floating-point number
LiveInputs == [FullInputs EXCEPT !.documents = {VegaDocument, VegaSignalDocument}]

\* the domains concurrent calls draw their inputs from
ConcInputs ==
    [texts |-> {TextNotJson, TextMarkBar}, renderers |-> {"svg", "webgl"},
     bundles |-> {FALSE}, scales |-> {1}, ppis |-> {72}, qualities |-> {150},
     rich |-> FALSE, documents |-> {VegaDocument}]

(***************************************************************************)
(* Values of the Rust types the entry points handle.                       *)
(***************************************************************************)
\* a slot of the model's state: empty, or holding one value
None == <<>>

Holding(x) == <<x>>

\* a quality-clamping Some: values above 100 are cut to 100
Some_clamped(x) == <<IF x > 100 THEN 100 ELSE x>>

\* Some(scale), Some(ppi), Some(quality): the value, unchanged, as an Option
Some(x) == <<x>>

\* atoms::ok(), atoms::error()
atom_ok == "ok"

atom_error == "error"

\* StringResultTuple {lhs, rhs}, BinaryResultTuple {lhs, rhs}
StringResultTuple(lhs, rhs) == [lhs |-> lhs, rhs |-> rhs]

BinaryResultTuple(lhs, rhs) == [lhs |-> lhs, rhs |-> rhs]

\* the two variants of Either
BinaryTuple(t) == [variant |-> "BinaryTuple", inner |-> t]

StringTuple(t) == [variant |-> "StringTuple", inner |-> t]

\* the term a StringResultTuple encodes to: {lhs, rhs} with a text rhs
EncodeString(t) == [tag |-> t.lhs, type |-> "text", payload |-> t.rhs]

\* the term a BinaryResultTuple encodes to: {lhs, rhs} with a byte-vector rhs
EncodeBinary(t) == [tag |-> t.lhs, type |-> "bytes", payload |-> t.rhs]

\* Encoder for Either: the encoding of whichever tuple the variant holds
encode(e) ==
    IF e.variant = "BinaryTuple" THEN EncodeBinary(e.inner)
    ELSE EncodeString(e.inner)

\* an ok_binary_tuple that tags its data with the error atom
ok_binary_tuple_error_tag(data) == BinaryResultTuple(atom_error, data)

\* an error_tuple that panics instead of building the tuple
error_tuple_panics(error) == StringResultTuple("panic", error)

\* an error_tuple that replaces the message it is given
error_tuple_generic(error) == StringResultTuple(atom_error, "conversion failed")

ok_string_tuple(data) == StringResultTuple(atom_ok, data)

ok_binary_tuple(data) == BinaryResultTuple(atom_ok, data)

error_tuple(error) == StringResultTuple(atom_error, error)

\* VgOpts { ..Default::default() }
vg_opts == [type |-> "VgOpts", vl_version |-> "none"]

\* VlOpts { vl_version: VlVersion::v5_20, ..Default::default() }
vl_opts == [type |-> "VlOpts", vl_version |-> "v5_20"]

\* a renderer.parse() that accepts every name
parse_renderer_any(renderer) == [ok |-> TRUE, val |-> renderer]

\* renderer.parse(): the names vl_convert_rs::Renderer is parsed from
parse_renderer(renderer) ==
    IF renderer \in {"svg", "canvas", "hybrid"}
    THEN [ok |-> TRUE, val |-> renderer]
    ELSE [ok |-> FALSE, val |-> ""]

\* the arguments of one call, as the host supplied them
Args(text, bundle, renderer, scale, ppi, quality) ==
    [text |-> text, bundle |-> bundle, renderer |-> renderer,
     scale |-> scale, ppi |-> ppi, quality |-> quality]

\* a parameter an entry point or an engine method takes, and one it does not take
Passed(x) == <<x>>

NotPassed == <<>>

NoArgs == Args(<<>>, NotPassed, NotPassed, NotPassed, NotPassed, NotPassed)

\* one invocation of a VlConverter method: the method and what it was passed
Request(fn, spec, opts, bundle, renderer, scale, ppi, quality) ==
    [fn |-> fn, spec |-> spec, opts |-> opts, bundle |-> bundle,
     renderer |-> renderer, scale |-> scale, ppi |-> ppi, quality |-> quality]

(***************************************************************************)
(* The conversion engine (vl_convert_rs), a black box: any method may fail *)
(* with an error whose text is arbitrary or succeed with a payload of its  *)
(* return type; a markup or image payload is never empty.                  *)
(***************************************************************************)
EngineOk(kind, payload) == [ok |-> TRUE, kind |-> kind, payload |-> payload]

EngineErr(msg) == [ok |-> FALSE, kind |-> "error", payload |-> msg]

EngineErrors(rich) ==
    IF rich
    THEN {EngineErr("Vega-Lite compilation failed"), EngineErr("Invalid renderer provided")}
    ELSE {EngineErr("Vega-Lite compilation failed")}

EngineOutcomes(req, d) ==
    EngineErrors(d.rich) \cup
    CASE req.fn[2] \in {"svg", "html"} ->
           {EngineOk("text", "<svg></svg>")}
             \cup (IF d.rich THEN {EngineOk("text", "<!DOCTYPE html>")} ELSE {})
      [] req.fn[2] \in {"png", "jpeg", "pdf"} ->
           {EngineOk("bytes", <<137, 80, 78, 71>>)}
             \cup (IF d.rich THEN {EngineOk("bytes", <<255, 216, 255>>)} ELSE {})
      [] req.fn[2] = "vega" ->
           {EngineOk("json", document) : document \in d.documents}

(***************************************************************************)
(* State.                                                                  *)
(***************************************************************************)
VARIABLES
    pc,        \* pc[c]: "idle", "blocked" (inside block_on) or "done" (returned)
    op,        \* op[c]: the entry point call c runs, "none" when idle
    args,      \* args[c]: the arguments call c was given
    handle,    \* handle[c]: the VlConverter call c constructed, 0 before that
    engine,    \* engine[h]: the request pending on converter h and its outcome
    invoked,   \* invoked[c]: the engine requests call c has issued, in order
    response,  \* response[c]: <<outcome, request>>, the engine outcome block_on handed
               \* to call c and the request that outcome answers; None before that
    result     \* result[c]: the term call c returned to the host

vars == <<pc, op, args, handle, engine, invoked, response, result>>

Handles == Calls

EngineIdle == [req |-> None, out |-> None]

Init ==
    /\ pc = [c \in Calls |-> "idle"]
    /\ op = [c \in Calls |-> "none"]
    /\ args = [c \in Calls |-> NoArgs]
    /\ handle = [c \in Calls |-> 0]
    /\ engine = [h \in Handles |-> EngineIdle]
    /\ invoked = [c \in Calls |-> <<>>]
    /\ response = [c \in Calls |-> None]
    /\ result = [c \in Calls |-> None]


(***************************************************************************)
(* Steps shared by the entry points.                                       *)
(***************************************************************************)
\* the host calls entry point o with arguments a on the free call slot c
Enter(c, o, a) ==
    /\ pc[c] = "idle"
    /\ op' = [op EXCEPT ![c] = o]
    /\ args' = [args EXCEPT ![c] = a]

\* `return` before any converter exists
ReturnEarly(c, term) ==
    /\ pc' = [pc EXCEPT ![c] = "done"]
    /\ result' = [result EXCEPT ![c] = Holding(term)]
    /\ UNCHANGED <<handle, engine, invoked, response>>

\* one converter shared by every call
NewConverter_shared(c) == 1

\* VlConverter::new(): a converter that belongs to call c alone
NewConverter(c) == c

\* futures::executor::block_on(converter.<method>(...)): the request is issued
\* on a new converter and the calling thread blocks until its future resolves
block_on(c, req) ==
    LET converter == NewConverter(c) IN
    /\ pc' = [pc EXCEPT ![c] = "blocked"]
    /\ handle' = [handle EXCEPT ![c] = converter]
    /\ engine' = [engine EXCEPT ![converter] = [req |-> Holding(req), out |-> None]]
    /\ invoked' = [invoked EXCEPT ![c] = Append(@, req)]
    /\ UNCHANGED <<response, result>>

\* a block_on that gives up on a pending future
Awaited_timeout(h) ==
    IF engine[h].out = None THEN Holding(EngineErr("timed out")) ELSE engine[h].out

\* what block_on has to hand back on converter h: None while the future is pending
Awaited(h) == engine[h].out

\* block_on returns in call c, which runs entry point o
Resumed(c, o) ==
    /\ pc[c] = "blocked"
    /\ op[c] = o
    /\ Awaited(handle[c]) # None

\* the final `return match`: the converter is dropped, the term goes to the host
Return(c, out, term) ==
    /\ pc' = [pc EXCEPT ![c] = "done"]
    /\ result' = [result EXCEPT ![c] = Holding(term)]
    /\ response' = [response EXCEPT ![c] = <<out, engine[handle[c]].req[1]>>]
    /\ engine' = [engine EXCEPT ![handle[c]] = EngineIdle]
    /\ UNCHANGED <<op, args, handle, invoked>>

(***************************************************************************)
(* The entry points.  Each is two steps: up to the blocking wait, and from *)
(* the engine's outcome to the returned term.                              *)
(***************************************************************************)
vega_to_svg(c, vega_spec) ==
    /\ Enter(c, "vega_to_svg", Args(vega_spec, NotPassed, NotPassed, NotPassed, NotPassed, NotPassed))
    /\ LET parsed == from_str(vega_spec) IN
       IF ~parsed.ok
       THEN ReturnEarly(c, EncodeString(error_tuple("Vega spec is not valid JSON")))
       ELSE block_on(c, Request(<<"vega", "svg">>, parsed.val, vg_opts,
                                   NotPassed, NotPassed, NotPassed,
                                   NotPassed, NotPassed))

vega_to_svg_return(c) ==
    /\ Resumed(c, "vega_to_svg")
    /\ LET out == Awaited(handle[c])[1] IN
       IF out.ok
       THEN Return(c, out, EncodeString(ok_string_tuple(out.payload)))
       ELSE Return(c, out, EncodeString(error_tuple(out.payload)))

\* vega_to_html with the renderer name checked before the spec text
vega_to_html_renderer_first(c, vega_spec, bundle, renderer) ==
    /\ Enter(c, "vega_to_html", Args(vega_spec, Passed(bundle), Passed(renderer), NotPassed, NotPassed, NotPassed))
    /\ LET renderer_enum == parse_renderer(renderer) IN
       IF ~renderer_enum.ok
       THEN ReturnEarly(c, EncodeString(error_tuple("Invalid renderer provided")))
       ELSE LET parsed == from_str(vega_spec) IN
            IF ~parsed.ok
            THEN ReturnEarly(c, EncodeString(error_tuple("Vega spec is not valid JSON")))
            ELSE block_on(c, Request(<<"vega", "html">>, parsed.val, vg_opts,
                                   Passed(bundle), Passed(renderer_enum.val), NotPassed,
                                   NotPassed, NotPassed))

vega_to_html(c, vega_spec, bundle, renderer) ==
    /\ Enter(c, "vega_to_html", Args(vega_spec, Passed(bundle), Passed(renderer), NotPassed, NotPassed, NotPassed))
    /\ LET parsed == from_str(vega_spec) IN
       IF ~parsed.ok
       THEN ReturnEarly(c, EncodeString(error_tuple("Vega spec is not valid JSON")))
       ELSE LET renderer_enum == parse_renderer(renderer) IN
            IF ~renderer_enum.ok
            THEN ReturnEarly(c, EncodeString(error_tuple("Invalid renderer provided")))
            ELSE block_on(c, Request(<<"vega", "html">>, parsed.val, vg_opts,
                                   Passed(bundle), Passed(renderer_enum.val), NotPassed,
                                   NotPassed, NotPassed))

vega_to_html_return(c) ==
    /\ Resumed(c, "vega_to_html")
    /\ LET out == Awaited(handle[c])[1] IN
       IF out.ok
       THEN Return(c, out, EncodeString(ok_string_tuple(out.payload)))
       ELSE Return(c, out, EncodeString(error_tuple(out.payload)))

vega_to_png(c, vega_spec, scale, ppi) ==
    /\ Enter(c, "vega_to_png", Args(vega_spec, NotPassed, NotPassed, Passed(scale), Passed(ppi), NotPassed))
    /\ LET parsed == from_str(vega_spec) IN
       IF ~parsed.ok
       THEN ReturnEarly(c, encode(StringTuple(error_tuple("Vega spec is not valid JSON"))))
       ELSE block_on(c, Request(<<"vega", "png">>, parsed.val, vg_opts,
                                   NotPassed, NotPassed, Passed(Some(scale)),
                                   Passed(Some(ppi)), NotPassed))

vega_to_png_return(c) ==
    /\ Resumed(c, "vega_to_png")
    /\ LET out == Awaited(handle[c])[1] IN
       IF out.ok
       THEN Return(c, out, encode(BinaryTuple(ok_binary_tuple(out.payload))))
       ELSE Return(c, out, encode(StringTuple(error_tuple(out.payload))))

vega_to_jpeg(c, vega_spec, scale, quality) ==
    /\ Enter(c, "vega_to_jpeg", Args(vega_spec, NotPassed, NotPassed, Passed(scale), NotPassed, Passed(quality)))
    /\ LET parsed == from_str(vega_spec) IN
       IF ~parsed.ok
       THEN ReturnEarly(c, encode(StringTuple(error_tuple("VegaLite spec is not valid JSON"))))
       ELSE block_on(c, Request(<<"vega", "jpeg">>, parsed.val, vg_opts,
                                   NotPassed, NotPassed, Passed(Some(scale)),
                                   NotPassed, Passed(Some(quality))))

vega_to_jpeg_return(c) ==
    /\ Resumed(c, "vega_to_jpeg")
    /\ LET out == Awaited(handle[c])[1] IN
       IF out.ok
       THEN Return(c, out, encode(BinaryTuple(ok_binary_tuple(out.payload))))
       ELSE Return(c, out, encode(StringTuple(error_tuple(out.payload))))

vega_to_pdf(c, vega_spec) ==
    /\ Enter(c, "vega_to_pdf", Args(vega_spec, NotPassed, NotPassed, NotPassed, NotPassed, NotPassed))
    /\ LET parsed == from_str(vega_spec) IN
       IF ~parsed.ok
       THEN ReturnEarly(c, encode(StringTuple(error_tuple("Vega spec is not valid JSON"))))
       ELSE block_on(c, Request(<<"vega", "pdf">>, parsed.val, vg_opts,
                                   NotPassed, NotPassed, NotPassed,
                                   NotPassed, NotPassed))

vega_to_pdf_return(c) ==
    /\ Resumed(c, "vega_to_pdf")
    /\ LET out == Awaited(handle[c])[1] IN
       IF out.ok
       THEN Return(c, out, encode(BinaryTuple(ok_binary_tuple(out.payload))))
       ELSE Return(c, out, encode(StringTuple(error_tuple(out.payload))))

vegalite_to_svg(c, vega_lite_spec) ==
    /\ Enter(c, "vegalite_to_svg", Args(vega_lite_spec, NotPassed, NotPassed, NotPassed, NotPassed, NotPassed))
    /\ LET parsed == from_str(vega_lite_spec) IN
       IF ~parsed.ok
       THEN ReturnEarly(c, EncodeString(error_tuple("VegaLite spec is not valid JSON")))
       ELSE block_on(c, Request(<<"vegalite", "svg">>, parsed.val, vl_opts,
                                   NotPassed, NotPassed, NotPassed,
                                   NotPassed, NotPassed))

vegalite_to_svg_return(c) ==
    /\ Resumed(c, "vegalite_to_svg")
    /\ LET out == Awaited(handle[c])[1] IN
       IF out.ok
       THEN Return(c, out, EncodeString(ok_string_tuple(out.payload)))
       ELSE Return(c, out, EncodeString(error_tuple(out.payload)))

vegalite_to_html(c, vega_lite_spec, bundle, renderer) ==
    /\ Enter(c, "vegalite_to_html", Args(vega_lite_spec, Passed(bundle), Passed(renderer), NotPassed, NotPassed, NotPassed))
    /\ LET parsed == from_str(vega_lite_spec) IN
       IF ~parsed.ok
       THEN ReturnEarly(c, EncodeString(error_tuple("VegaLite spec is not valid JSON")))
       ELSE LET renderer_enum == parse_renderer(renderer) IN
            IF ~renderer_enum.ok
            THEN ReturnEarly(c, EncodeString(error_tuple("Invalid renderer provided")))
            ELSE block_on(c, Request(<<"vegalite", "html">>, parsed.val, vl_opts,
                                   Passed(bundle), Passed(renderer_enum.val), NotPassed,
                                   NotPassed, NotPassed))

vegalite_to_html_return(c) ==
    /\ Resumed(c, "vegalite_to_html")
    /\ LET out == Awaited(handle[c])[1] IN
       IF out.ok
       THEN Return(c, out, EncodeString(ok_string_tuple(out.payload)))
       ELSE Return(c, out, EncodeString(error_tuple(out.payload)))

vegalite_to_png(c, vega_lite_spec, scale, ppi) ==
    /\ Enter(c, "vegalite_to_png", Args(vega_lite_spec, NotPassed, NotPassed, Passed(scale), Passed(ppi), NotPassed))
    /\ LET parsed == from_str(vega_lite_spec) IN
       IF ~parsed.ok
       THEN ReturnEarly(c, encode(StringTuple(error_tuple("VegaLite spec is not valid JSON"))))
       ELSE block_on(c, Request(<<"vegalite", "png">>, parsed.val, vl_opts,
                                   NotPassed, NotPassed, Passed(Some(scale)),
                                   Passed(Some(ppi)), NotPassed))

vegalite_to_png_return(c) ==
    /\ Resumed(c, "vegalite_to_png")
    /\ LET out == Awaited(handle[c])[1] IN
       IF out.ok
       THEN Return(c, out, encode(BinaryTuple(ok_binary_tuple(out.payload))))
       ELSE Return(c, out, encode(StringTuple(error_tuple(out.payload))))

\* vegalite_to_jpeg calling the converter's vega_to_jpeg
vegalite_to_jpeg_wrong_method(c, vega_lite_spec, scale, quality) ==
    /\ Enter(c, "vegalite_to_jpeg", Args(vega_lite_spec, NotPassed, NotPassed, Passed(scale), NotPassed, Passed(quality)))
    /\ LET parsed == from_str(vega_lite_spec) IN
       IF ~parsed.ok
       THEN ReturnEarly(c, encode(StringTuple(error_tuple("VegaLite spec is not valid JSON"))))
       ELSE block_on(c, Request(<<"vega", "jpeg">>, parsed.val, vl_opts,
                                   NotPassed, NotPassed, Passed(Some(scale)),
                                   NotPassed, Passed(Some(quality))))

vegalite_to_jpeg(c, vega_lite_spec, scale, quality) ==
    /\ Enter(c, "vegalite_to_jpeg", Args(vega_lite_spec, NotPassed, NotPassed, Passed(scale), NotPassed, Passed(quality)))
    /\ LET parsed == from_str(vega_lite_spec) IN
       IF ~parsed.ok
       THEN ReturnEarly(c, encode(StringTuple(error_tuple("VegaLite spec is not valid JSON"))))
       ELSE block_on(c, Request(<<"vegalite", "jpeg">>, parsed.val, vl_opts,
                                   NotPassed, NotPassed, Passed(Some(scale)),
                                   NotPassed, Passed(Some(quality))))

vegalite_to_jpeg_return(c) ==
    /\ Resumed(c, "vegalite_to_jpeg")
    /\ LET out == Awaited(handle[c])[1] IN
       IF out.ok
       THEN Return(c, out, encode(BinaryTuple(ok_binary_tuple(out.payload))))
       ELSE Return(c, out, encode(StringTuple(error_tuple(out.payload))))

vegalite_to_pdf(c, vega_lite_spec) ==
    /\ Enter(c, "vegalite_to_pdf", Args(vega_lite_spec, NotPassed, NotPassed, NotPassed, NotPassed, NotPassed))
    /\ LET parsed == from_str(vega_lite_spec) IN
       IF ~parsed.ok
       THEN ReturnEarly(c, encode(StringTuple(error_tuple("VegaLite spec is not valid JSON"))))
       ELSE block_on(c, Request(<<"vegalite", "pdf">>, parsed.val, vl_opts,
                                   NotPassed, NotPassed, NotPassed,
                                   NotPassed, NotPassed))

vegalite_to_pdf_return(c) ==
    /\ Resumed(c, "vegalite_to_pdf")
    /\ LET out == Awaited(handle[c])[1] IN
       IF out.ok
       THEN Return(c, out, encode(BinaryTuple(ok_binary_tuple(out.payload))))
       ELSE Return(c, out, encode(StringTuple(error_tuple(out.payload))))

vegalite_to_vega(c, vega_lite_spec) ==
    /\ Enter(c, "vegalite_to_vega", Args(vega_lite_spec, NotPassed, NotPassed, NotPassed, NotPassed, NotPassed))
    /\ LET parsed == from_str(vega_lite_spec) IN
       IF ~parsed.ok
       THEN ReturnEarly(c, EncodeString(error_tuple("VegaLite spec is not valid JSON")))
       ELSE block_on(c, Request(<<"vegalite", "vega">>, parsed.val, vl_opts,
                                   NotPassed, NotPassed, NotPassed,
                                   NotPassed, NotPassed))

vegalite_to_vega_return(c) ==
    /\ Resumed(c, "vegalite_to_vega")
    /\ LET out == Awaited(handle[c])[1] IN
       IF out.ok
       THEN Return(c, out, EncodeString(ok_string_tuple(to_string(out.payload))))
       ELSE Return(c, out, EncodeString(error_tuple(out.payload)))

(***************************************************************************)
(* The environment: the engine resolves a pending future; the host takes   *)
(* the returned term, which frees the call slot.                           *)
(***************************************************************************)
EngineCompletes(h, d) ==
    /\ engine[h].req # None
    /\ engine[h].out = None
    /\ \E out \in EngineOutcomes(engine[h].req[1], d) :
          engine' = [engine EXCEPT ![h].out = Holding(out)]
    /\ UNCHANGED <<pc, op, args, handle, invoked, response, result>>

HostReceives(c) ==
    /\ pc[c] = "done"
    /\ pc' = [pc EXCEPT ![c] = "idle"]
    /\ op' = [op EXCEPT ![c] = "none"]
    /\ args' = [args EXCEPT ![c] = NoArgs]
    /\ handle' = [handle EXCEPT ![c] = 0]
    /\ invoked' = [invoked EXCEPT ![c] = <<>>]
    /\ response' = [response EXCEPT ![c] = None]
    /\ result' = [result EXCEPT ![c] = None]
    /\ UNCHANGED engine

\* block_on returns in call c and its entry point runs to its end
Returns(c) ==
    \/ vega_to_svg_return(c)
    \/ vega_to_html_return(c)
    \/ vega_to_png_return(c)
    \/ vega_to_jpeg_return(c)
    \/ vega_to_pdf_return(c)
    \/ vegalite_to_svg_return(c)
    \/ vegalite_to_html_return(c)
    \/ vegalite_to_png_return(c)
    \/ vegalite_to_jpeg_return(c)
    \/ vegalite_to_pdf_return(c)
    \/ vegalite_to_vega_return(c)

\* call slot c takes any step of any entry point, its inputs drawn from d
Step(c, d) ==
    \/ \E t \in d.texts : vega_to_svg(c, t)
    \/ \E t \in d.texts, b \in d.bundles, r \in d.renderers : vega_to_html(c, t, b, r)
    \/ \E t \in d.texts, s \in d.scales, p \in d.ppis : vega_to_png(c, t, s, p)
    \/ \E t \in d.texts, s \in d.scales, q \in d.qualities : vega_to_jpeg(c, t, s, q)
    \/ \E t \in d.texts : vega_to_pdf(c, t)
    \/ \E t \in d.texts : vegalite_to_svg(c, t)
    \/ \E t \in d.texts, b \in d.bundles, r \in d.renderers : vegalite_to_html(c, t, b, r)
    \/ \E t \in d.texts, s \in d.scales, p \in d.ppis : vegalite_to_png(c, t, s, p)
    \/ \E t \in d.texts, s \in d.scales, q \in d.qualities : vegalite_to_jpeg(c, t, s, q)
    \/ \E t \in d.texts : vegalite_to_pdf(c, t)
    \/ \E t \in d.texts : vegalite_to_vega(c, t)
    \/ Returns(c)
    \/ EngineCompletes(c, d)
    \/ HostReceives(c)

\* one call at a time, over the full input domains
Next == Step(1, FullInputs)

Spec == Init /\ [][Next]_vars

\* NumCalls calls interleaved, over the reduced input domains
ConcNext == \E c \in Calls : Step(c, ConcInputs)

ConcSpec == Init /\ [][ConcNext]_vars


\* one call at a time, over LiveInputs
LiveNext == Step(1, LiveInputs)

\* the scheduling the code relies on: a resolved future wakes the blocked
\* thread, and (the assumption of the liveness claim) every engine operation
\* eventually completes
LiveSpec ==
    /\ Init
    /\ [][LiveNext]_vars
    /\ WF_vars(Returns(1))
    /\ WF_vars(EngineCompletes(1, LiveInputs))


(***************************************************************************)
(* Vocabulary of the properties.                                           *)
(***************************************************************************)
VegaOps == {"vega_to_svg", "vega_to_html", "vega_to_png", "vega_to_jpeg", "vega_to_pdf"}

VegaLiteOps ==
    {"vegalite_to_svg", "vegalite_to_html", "vegalite_to_png", "vegalite_to_jpeg",
     "vegalite_to_pdf", "vegalite_to_vega"}

HtmlOps == {"vega_to_html", "vegalite_to_html"}

RasterOps == {"vega_to_png", "vega_to_jpeg", "vegalite_to_png", "vegalite_to_jpeg"}

BinaryOps == RasterOps \cup {"vega_to_pdf", "vegalite_to_pdf"}

SupportedRenderers == {"svg", "canvas", "hybrid"}

\* the message that names the grammar entry point o targets
GrammarMessage(o) ==
    IF o \in VegaOps THEN "Vega spec is not valid JSON"
    ELSE "VegaLite spec is not valid JSON"

\* the engine operation of entry point o's (grammar kind, target format) pair
EnginePair(o) ==
    CASE o = "vega_to_svg"       -> <<"vega", "svg">>
      [] o = "vega_to_html"      -> <<"vega", "html">>
      [] o = "vega_to_png"       -> <<"vega", "png">>
      [] o = "vega_to_jpeg"      -> <<"vega", "jpeg">>
      [] o = "vega_to_pdf"       -> <<"vega", "pdf">>
      [] o = "vegalite_to_svg"   -> <<"vegalite", "svg">>
      [] o = "vegalite_to_html"  -> <<"vegalite", "html">>
      [] o = "vegalite_to_png"   -> <<"vegalite", "png">>
      [] o = "vegalite_to_jpeg"  -> <<"vegalite", "jpeg">>
      [] o = "vegalite_to_pdf"   -> <<"vegalite", "pdf">>
      [] o = "vegalite_to_vega"  -> <<"vegalite", "vega">>

Returned(c) == pc[c] = "done"

Term(c) == result[c][1]

\* call c returned {error, msg}
ReturnedError(c, msg) ==
    /\ Returned(c)
    /\ Term(c).tag = "error"
    /\ Term(c).type = "text"
    /\ Term(c).payload = msg

ValidJson(c) == from_str(args[c].text).ok

BadRenderer(c) == op[c] \in HtmlOps /\ args[c].renderer[1] \notin SupportedRenderers

\* intake and option resolution succeed for entry point o given arguments a
DispatchesWith(o, a) ==
    /\ from_str(a.text).ok
    /\ o \in HtmlOps => a.renderer[1] \in SupportedRenderers

Dispatches(c) == DispatchesWith(op[c], args[c])

\* the engine was invoked during call c and call c has its outcome
EngineOutcome(c) == response[c][1]

UsedEngine(c) == Returned(c) /\ response[c] # <<>>

(***************************************************************************)
(* C1: every entry point, given a spec text that is not valid JSON,        *)
(* returns {error, msg} where msg names the grammar the entry point        *)
(* targets ("Vega spec is not valid JSON" for the vega_to entry points,    *)
(* "VegaLite spec is not valid JSON" for the vegalite_to entry points),    *)
(* and never invokes the engine.                                           *)
(***************************************************************************)
C1_InvalidJsonNamesGrammar ==
    \A c \in Calls :
        (Returned(c) /\ ~ValidJson(c)) =>
            /\ ReturnedError(c, GrammarMessage(op[c]))
            /\ invoked[c] = <<>>

(***************************************************************************)
(* C2 as stated: vega_to_html and vegalite_to_html, given a renderer name  *)
(* that maps to no supported renderer, return {error, "Invalid renderer    *)
(* provided"} without invoking the engine.                                 *)
(***************************************************************************)
C2_Original ==
    \A c \in Calls :
        (Returned(c) /\ BadRenderer(c)) =>
            /\ ReturnedError(c, "Invalid renderer provided")
            /\ invoked[c] = <<>>

(***************************************************************************)
(* C2 as amended: given a renderer name that maps to no supported          *)
(* renderer, vega_to_html and vegalite_to_html never invoke the engine,    *)
(* and when the spec text is valid JSON they return {error, "Invalid       *)
(* renderer provided"}.                                                    *)
(***************************************************************************)
C2_InvalidRendererRejected ==
    \A c \in Calls :
        (pc[c] # "idle" /\ BadRenderer(c)) =>
            /\ Returned(c)
            /\ invoked[c] = <<>>
            /\ ValidJson(c) => ReturnedError(c, "Invalid renderer provided")

C2_Witness ==
    \E c \in Calls :
        /\ BadRenderer(c)
        /\ ValidJson(c)
        /\ ReturnedError(c, "Invalid renderer provided")

(***************************************************************************)
(* C3: every call ends by returning exactly one {tag, payload} term whose  *)
(* tag is ok or error, whatever the input and whatever the engine does; a  *)
(* call that has not returned has produced no term.                        *)
(***************************************************************************)
C3_AlwaysOneTaggedResult ==
    \A c \in Calls :
        /\ pc[c] \in {"idle", "blocked", "done"}
        /\ Returned(c) =>
              /\ Len(result[c]) = 1
              /\ DOMAIN Term(c) = {"tag", "type", "payload"}
              /\ Term(c).tag \in {"ok", "error"}
              /\ Term(c).type \in {"text", "bytes"}
        /\ ~Returned(c) => result[c] = <<>>

\* an engine failure came back as an error term
C3_Witness ==
    \E c \in Calls :
        UsedEngine(c) /\ ~EngineOutcome(c).ok /\ Term(c).tag = "error"

(***************************************************************************)
(* C4: a binary-result entry point (PNG, JPEG, PDF) returns either         *)
(* {ok, bytes} with bytes non-empty or {error, text}; ok never carries     *)
(* text, error never carries bytes, ok never carries no bytes.             *)
(***************************************************************************)
C4_BinaryShape ==
    \A c \in Calls :
        (Returned(c) /\ op[c] \in BinaryOps) =>
            \/ Term(c).tag = "ok" /\ Term(c).type = "bytes" /\ Term(c).payload # <<>>
            \/ Term(c).tag = "error" /\ Term(c).type = "text"

\* a binary-result entry point returned the bytes the engine produced
C4_Witness ==
    \E c \in Calls :
        /\ Returned(c)
        /\ op[c] \in BinaryOps
        /\ UsedEngine(c)
        /\ EngineOutcome(c).ok
        /\ Term(c).tag = "ok"
        /\ Term(c).type = "bytes"
        /\ Term(c).payload # <<>>

(***************************************************************************)
(* C5 as stated: when the engine was invoked, an engine failure yields     *)
(* {error, msg} with msg the engine's error text, and an engine success    *)
(* yields {ok, payload} with payload exactly the engine's payload, for     *)
(* every entry point.                                                      *)
(***************************************************************************)
C5_Original ==
    \A c \in Calls :
        UsedEngine(c) =>
            IF EngineOutcome(c).ok
            THEN /\ Term(c).tag = "ok"
                 /\ EngineOutcome(c).kind = Term(c).type
                 /\ Term(c).payload = EngineOutcome(c).payload
            ELSE ReturnedError(c, EngineOutcome(c).payload)

(***************************************************************************)
(* C5 as amended: as stated for every entry point but vegalite_to_vega;    *)
(* there the engine's payload is a JSON document, and an engine success    *)
(* yields {ok, text} where text is that document serialised by to_string.  *)
(***************************************************************************)
C5_EngineOutcomeWrapped ==
    \A c \in Calls :
        UsedEngine(c) =>
            IF ~EngineOutcome(c).ok
            THEN ReturnedError(c, EngineOutcome(c).payload)
            ELSE IF op[c] = "vegalite_to_vega"
            THEN /\ Term(c).tag = "ok"
                 /\ Term(c).type = "text"
                 /\ EngineOutcome(c).kind = "json"
                 /\ Term(c).payload = to_string(EngineOutcome(c).payload)
            ELSE /\ Term(c).tag = "ok"
                 /\ EngineOutcome(c).kind = Term(c).type
                 /\ Term(c).payload = EngineOutcome(c).payload

\* vegalite_to_vega returned the text of an engine document whose strings
\* needed escaping
C5_Witness ==
    \E c \in Calls :
        /\ UsedEngine(c)
        /\ op[c] = "vegalite_to_vega"
        /\ EngineOutcome(c).ok
        /\ EngineOutcome(c).payload = VegaSignalDocument
        /\ Term(c).tag = "ok"
        /\ Term(c).type = "text"
        /\ \E k \in 1..Len(Term(c).payload) : Term(c).payload[k] = 92

(***************************************************************************)
(* C6: a raster entry point given valid JSON never fails locally over the  *)
(* value of scale, PPI or quality: whatever the values, the engine is      *)
(* invoked with exactly those values, and any error returned is the error  *)
(* the engine reported.                                                    *)
(***************************************************************************)
\* what the engine is to receive for a parameter the entry point was given as a
C6_Forwarded(a) == IF a = <<>> THEN <<>> ELSE <<a>>

C6_NumericParametersPassThrough ==
    \A c \in Calls :
        (pc[c] # "idle" /\ op[c] \in RasterOps /\ ValidJson(c)) =>
            /\ Len(invoked[c]) = 1
            /\ invoked[c][1].scale = C6_Forwarded(args[c].scale)
            /\ invoked[c][1].ppi = C6_Forwarded(args[c].ppi)
            /\ invoked[c][1].quality = C6_Forwarded(args[c].quality)
            /\ (Returned(c) /\ Term(c).tag = "error") =>
                  /\ UsedEngine(c)
                  /\ ~EngineOutcome(c).ok
                  /\ Term(c).payload = EngineOutcome(c).payload

\* quality 150 reached the engine, whose failure was returned
C6_Witness ==
    \E c \in Calls :
        /\ op[c] = "vega_to_jpeg"
        /\ args[c].quality = <<150>>
        /\ UsedEngine(c)
        /\ invoked[c][1].quality = <<<<150>>>>
        /\ Term(c).tag = "error"

(***************************************************************************)
(* C7: under any interleaving of calls, no call changes another call's     *)
(* state or result: the converter a call uses is its own, the request      *)
(* pending on it and the outcome the call consumes are the call's own, and *)
(* a step that changes anything of one call changes nothing of another.    *)
(***************************************************************************)
\* everything that belongs to call c, its converter's slot in the engine included
C7_Local(c) ==
    <<pc[c], op[c], args[c], handle[c], invoked[c], response[c], result[c],
      IF handle[c] = 0 THEN EngineIdle ELSE engine[handle[c]]>>

C7_OwnState ==
    \A c \in Calls :
        /\ pc[c] = "blocked" =>
              /\ Len(invoked[c]) = 1
              /\ engine[handle[c]].req = <<invoked[c][1]>>
        /\ UsedEngine(c) => response[c][2] = invoked[c][1]
        /\ \A d \in Calls \ {c} : handle[c] # 0 => handle[c] # handle[d]

C7_NoInterference ==
    /\ []C7_OwnState
    /\ [][\A c \in Calls : \A d \in Calls \ {c} :
            C7_Local(c)' # C7_Local(c) => C7_Local(d)' = C7_Local(d)]_vars

\* two calls are blocked on the engine at once, then one of them has returned
C7_Witness ==
    \E c \in Calls : \E d \in Calls \ {c} :
        /\ pc[d] = "blocked"
        /\ UsedEngine(c)
        /\ op[c] # op[d]

(***************************************************************************)
(* C8: a call whose intake and option resolution succeed invokes the       *)
(* engine exactly once, and the operation it invokes is the one of the     *)
(* entry point's own (grammar kind, target format) pair; a call that has   *)
(* invoked the engine never invokes it again.                              *)
(***************************************************************************)
C8_ExactlyOneOwnEngineOperation ==
    \A c \in Calls :
        /\ (pc[c] # "idle" /\ Dispatches(c)) =>
              /\ Len(invoked[c]) = 1
              /\ invoked[c][1].fn = EnginePair(op[c])
        /\ Len(invoked[c]) <= 1

C8_Witness ==
    \E c \in Calls :
        /\ op[c] = "vegalite_to_jpeg"
        /\ UsedEngine(c)
        /\ ~EngineOutcome(c).ok
        /\ invoked[c] = <<response[c][2]>>

(***************************************************************************)
(* C9: a dispatched call returns only once the engine has delivered a      *)
(* success or a failure (there is no timeout and no cancellation); if      *)
(* every engine operation eventually completes, every call eventually      *)
(* returns; and a call that fails local validation returns at once,        *)
(* without the engine.                                                     *)
(***************************************************************************)
C9_ReturnsWhenEngineCompletes ==
    /\ \A c \in Calls : (pc[c] = "blocked") ~> (pc[c] = "done")
    /\ [][\A c \in Calls :
            (pc[c] = "blocked" /\ pc'[c] # "blocked") =>
                /\ pc'[c] = "done"
                /\ engine[handle[c]].out # <<>>
                /\ response'[c] = <<engine[handle[c]].out[1], engine[handle[c]].req[1]>>]_vars
    /\ [][\A c \in Calls :
            pc[c] = "idle" =>
                /\ pc'[c] = "done" =>
                      /\ ~DispatchesWith(op'[c], args'[c])
                      /\ invoked'[c] = <<>>
                      /\ engine' = engine
                /\ pc'[c] = "blocked" => DispatchesWith(op'[c], args'[c])]_vars

\* a call that was blocked on the engine has returned with the engine's outcome
C9_Witness ==
    \E c \in Calls :
        /\ UsedEngine(c)
        /\ Len(invoked[c]) = 1
        /\ engine[handle[c]] = EngineIdle

(***************************************************************************)
(* C10: vega_to_html and vegalite_to_html validate the spec text before    *)
(* the renderer name: with a spec text that is not valid JSON the result   *)
(* is the entry point's "... spec is not valid JSON" error even when the   *)
(* renderer name is unrecognised, and a local "Invalid renderer provided"  *)
(* is returned only for a spec text that parsed.                           *)
(***************************************************************************)
C10_SpecTextCheckedFirst ==
    \A c \in Calls :
        (Returned(c) /\ op[c] \in HtmlOps) =>
            /\ ~ValidJson(c) =>
                  /\ ReturnedError(c, GrammarMessage(op[c]))
                  /\ Term(c).payload # "Invalid renderer provided"
            /\ ReturnedError(c, "Invalid renderer provided") => ValidJson(c)

\* neither the spec text nor the renderer name is acceptable
C10_Witness ==
    \E c \in Calls :
        /\ Returned(c)
        /\ BadRenderer(c)
        /\ ~ValidJson(c)
        /\ ReturnedError(c, GrammarMessage(op[c]))

====
